---- MODULE Spec2Model ----
(***************************************************************************)
(* A model of vstruct2/types.py: the VStruct field tree, the offset walk   *)
(* (vsPrims), vsParse / vsLoad / vsEmit / vsSize, attribute and item       *)
(* assignment, VArray, and the primitives vbytes, cstr and zstr.           *)
(*                                                                         *)
(* Bytes are integers 0..255, byte strings are sequences of bytes, text is *)
(* a sequence of code points.  The text encoding is UTF-8, modelled for    *)
(* code points below 2048 (one and two byte forms).                        *)
(*                                                                         *)
(* vstruct2/bases.py (v_base, v_prim, v_int) is not part of the sources at *)
(* hand; the definitions that stand for it follow the primitive contract   *)
(* of the specification and the way types.py calls it (zstr.vsSize calls   *)
(* _prim_getval before it reads _vs_size, so a parse only records where    *)
(* the bytes are and the value is decoded on demand).                      *)
(***************************************************************************)
EXTENDS Integers, Sequences, FiniteSets, TLC

VARIABLES objs, last, calls

vars == <<objs, last, calls>>

\* ------------------------------------------------------------------ bounds
\* size of the object pool: the objects of the largest structure parsed
MaxObjs == 5
\* most calls made on a structure after its constructor
MaxCalls == 2
\* longest byte buffer of the exhaustive enumeration of buffers
MaxLen == 2

\* ----------------------------------------------------------- byte strings
\* the byte values the enumerated buffers are made of: NUL and 'A'
ByteVals == {0, 65}

\* the start offsets handed to vsParse / vsLoad
Offsets == {0, 1}

Min(a, b) == IF a < b THEN a ELSE b
Max(a, b) == IF a > b THEN a ELSE b

\* python slice b[lo:hi] for 0 <= lo
Slice(b, lo, hi) == SubSeq(b, lo + 1, Min(hi, Len(b)))

\* n zero bytes
Zeros(n) == [i \in 1..Max(n, 0) |-> 0]

\* bytes.ljust(n, b'\x00')
LJust(b, n) == IF Len(b) >= n THEN b ELSE b \o Zeros(n - Len(b))

RECURSIVE Pow256(_)
Pow256(n) == IF n = 0 THEN 1 ELSE 256 * Pow256(n - 1)

\* io.BytesIO: seek(off) then write(data); a write past the end zero-fills
\* the gap, an empty write changes nothing
FdWrite(fd, off, data) ==
    IF Len(data) = 0 THEN fd
    ELSE LET padded == LJust(fd, off)
             n == Max(Len(padded), off + Len(data))
         IN [i \in 1..n |->
                IF i > off /\ i <= off + Len(data) THEN data[i - off]
                ELSE padded[i]]

\* ------------------------------------------------------------ text codec
\* str.encode('utf8') for code points below 2048
RECURSIVE Utf8Encode(_)
Utf8Encode(s) ==
    IF Len(s) = 0 THEN <<>>
    ELSE LET c == Head(s)
         IN (IF c < 128 THEN <<c>>
             ELSE <<192 + (c \div 64), 128 + (c % 64)>>) \o Utf8Encode(Tail(s))

IsLead2(b) == b >= 194 /\ b <= 223
IsCont(b) == b >= 128 /\ b <= 191

\* bytes.decode('utf8') of a whole byte string (strict); err is "" or the
\* exception
RECURSIVE Utf8Decode(_)
Utf8Decode(b) ==
    IF Len(b) = 0 THEN [err |-> "", val |-> <<>>]
    ELSE IF b[1] < 128
         THEN LET r == Utf8Decode(Tail(b))
              IN [err |-> r.err, val |-> <<b[1]>> \o r.val]
    ELSE IF IsLead2(b[1]) /\ Len(b) >= 2 /\ IsCont(b[2])
         THEN LET r == Utf8Decode(Tail(Tail(b)))
              IN [err |-> r.err,
                  val |-> <<(b[1] - 192) * 64 + (b[2] - 128)>> \o r.val]
    ELSE [err |-> "UnicodeDecodeError", val |-> <<>>]

\* str.split('\x00')[0]
RECURSIVE Split0(_)
Split0(s) ==
    IF Len(s) = 0 \/ Head(s) = 0 THEN <<>>
    ELSE <<Head(s)>> \o Split0(Tail(s))

\* ------------------------------------------------------- integer codec
\* int.from_bytes / struct unpack of exactly `size` bytes; fewer bytes than
\* the field needs is the decode error BufferUnderrun
BytesToInt(b, size, endian, signed) ==
    IF Len(b) < size THEN [err |-> "BufferUnderrun", val |-> <<>>]
    ELSE LET RECURSIVE Acc(_)
             Acc(i) == IF i > size THEN 0
                       ELSE b[i] * Pow256(IF endian = "big" THEN size - i ELSE i - 1)
                            + Acc(i + 1)
             u == Acc(1)
         IN [err |-> "",
             val |-> <<IF signed /\ u >= Pow256(size) \div 2
                       THEN u - Pow256(size) ELSE u>>]

\* the `size` bytes of an integer, two's complement when negative
IntToBytes(n, size, endian) ==
    LET u == n % Pow256(size)
    IN [i \in 1..size |->
           (u \div Pow256(IF endian = "big" THEN size - i ELSE i - 1)) % 256]

\* ------------------------------------------------------------- field names
\* a field name is a python dict key: a string (attribute and item names)
\* or an integer (array indices); the two never compare equal
StrName(s) == [s |-> s, i |-> -1]
IntName(i) == [s |-> "", i |-> i]

\* ----------------------------------------------------------------- objects
PrimKinds == {"v_int", "vbytes", "cstr", "zstr"}
StructKinds == {"VStruct", "VArray"}

NoFields == [n \in {} |-> 0]

\* a slot of the pool no object has been constructed in
FreeObj ==
    [kind |-> "free", order |-> <<>>, fields |-> NoFields, endian |-> "none",
     attrs |-> {}, size |-> 0, signed |-> FALSE, hasval |-> FALSE,
     value |-> <<>>, backsrc |-> "none", backbuf |-> <<>>, backoff |-> 0]

\* VStruct.__init__ / VArray.__init__ with no fields
NewStruct(kind) == [FreeObj EXCEPT !.kind = kind]

\* values handed to the model's operations: a freshly constructed Field
\* (isfield) or a plain python value of class int, bytes or str
FieldVal(cls, size, val) == [isfield |-> TRUE, cls |-> cls, size |-> size, val |-> val]
PlainVal(cls, val) == [isfield |-> FALSE, cls |-> cls, size |-> 0, val |-> val]

IsInt(cls) == cls \in {"int8", "uint8", "uint16"}

\* v_int._prim_norm: the value masked to the field's width
v_int_prim_norm(o, v) ==
    IF v.cls = "int"
    THEN [err |-> "", size |-> o.size, val |-> <<v.val[1] % Pow256(o.size)>>]
    ELSE [err |-> "TypeError", size |-> o.size, val |-> <<>>]

\* vbytes._prim_norm: bytes(x); bytes(n) of an int is n zero bytes and
\* raises ValueError (negative count) when n < 0
vbytes_prim_norm(o, v) ==
    IF v.cls = "bytes" THEN [err |-> "", size |-> o.size, val |-> v.val]
    ELSE IF v.cls = "int"
    THEN IF v.val[1] < 0
         THEN [err |-> "ValueError", size |-> o.size, val |-> <<>>]
         ELSE [err |-> "", size |-> o.size, val |-> Zeros(v.val[1])]
    ELSE [err |-> "TypeError", size |-> o.size, val |-> <<>>]

\* cstr._prim_norm: encode, cut to the field's size, decode
cstr_prim_norm(o, v) ==
    IF v.cls = "str"
    THEN LET d == Utf8Decode(Slice(Utf8Encode(v.val), 0, o.size))
         IN [err |-> d.err, size |-> o.size, val |-> d.val]
    ELSE [err |-> "AttributeError", size |-> o.size, val |-> <<>>]

\* zstr._prim_norm: vsResize(len((x + '\x00').encode())), value unchanged
zstr_prim_norm(o, v) ==
    IF v.cls = "str"
    THEN [err |-> "", size |-> Len(Utf8Encode(v.val \o <<0>>)), val |-> v.val]
    ELSE [err |-> "TypeError", size |-> o.size, val |-> <<>>]

\* _prim_norm of the object's class: [err, size, val]; size is the
\* primitive's size after the call
PrimNorm(o, v) ==
    CASE o.kind = "v_int" -> v_int_prim_norm(o, v)
      [] o.kind = "vbytes" -> vbytes_prim_norm(o, v)
      [] o.kind = "cstr" -> cstr_prim_norm(o, v)
      [] o.kind = "zstr" -> zstr_prim_norm(o, v)
      [] OTHER -> [err |-> "AttributeError", size |-> o.size, val |-> <<>>]

\* v_prim.__init__: the size is stored, then the initial value normalised
NewPrim(kind, size, signed, v) ==
    LET Normed(o, n) == [o EXCEPT !.size = n.size, !.value = n.val, !.hasval = TRUE]
        Made(o) == Normed(o, PrimNorm(o, v))
    IN Made([FreeObj EXCEPT !.kind = kind, !.size = size, !.signed = signed,
                            !.endian = IF kind = "v_int" THEN "little" ELSE "none"])

\* the constructor call a Field value stands for: VStruct(), VArray(),
\* int8(), uint8(), uint16(), vbytes(size, val), cstr(size), zstr()
Construct(v) ==
    CASE v.cls = "VStruct" -> NewStruct("VStruct")
      [] v.cls = "VArray" -> NewStruct("VArray")
      [] v.cls = "int8" -> NewPrim("v_int", 1, TRUE, PlainVal("int", <<0>>))
      [] v.cls = "uint8" -> NewPrim("v_int", 1, FALSE, PlainVal("int", <<0>>))
      [] v.cls = "uint16" -> NewPrim("v_int", 2, FALSE, PlainVal("int", <<0>>))
      [] v.cls = "vbytes" ->
           [NewPrim("vbytes", v.size, FALSE, PlainVal("bytes", v.val))
               EXCEPT !.value = v.val]
      [] v.cls = "cstr" -> NewPrim("cstr", v.size, FALSE, PlainVal("str", <<>>))
      [] v.cls = "zstr" -> NewPrim("zstr", 0, FALSE, PlainVal("str", <<>>))

\* _prim_setval: normalise, store
PrimSetVal(o, v) ==
    LET Store(n) ==
            IF n.err # "" THEN [err |-> n.err, o |-> o]
            ELSE [err |-> "",
                  o |-> [o EXCEPT !.size = n.size, !.value = n.val, !.hasval = TRUE]]
    IN Store(PrimNorm(o, v))

\* ------------------------------------------------- primitive encodings
vbytes_prim_emit(o, x) == LJust(x, o.size)

\* the slice taken from the start of the buffer whatever the offset
vbytes_prim_parse_start(o, byts, offset) == Slice(byts, 0, o.size)

\* vbytes._prim_parse: byts[offset:offset + vsSize()]
vbytes_prim_parse(o, byts, offset) == Slice(byts, offset, offset + o.size)

cstr_prim_emit(o, x) == LJust(Utf8Encode(x), o.size)

cstr_prim_parse(o, byts, offset) ==
    LET d == Utf8Decode(Slice(byts, offset, offset + o.size))
    IN [err |-> d.err, val |-> Split0(d.val)]

zstr_prim_emit(x) == Utf8Encode(x \o <<0>>)

\* the bytes zstr._prim_yield_bytes can yield: buf[off], buf[off+1], ...
zstr_prim_yield_bytes(buf, off) ==
    [i \in 1..Max(Len(buf) - off, 0) |-> buf[off + i]]

\* the bytes zstr._prim_yield_fd can yield: fd.seek(off), then read(1)
\* until the end of the stream
zstr_prim_yield_fd(fd, off) == SubSeq(fd, off + 1, Len(fd))

\* zstr._prim_fromgen: pull bytes one at a time through the incremental
\* decoder until a NUL character; n counts the bytes pulled (info['size']),
\* lead is the pending first byte of a two byte form (0: none)
RECURSIVE FromGenLoop(_, _, _, _)
FromGenLoop(gen, n, lead, chars) ==
    IF n >= Len(gen)
    THEN IF lead # 0 THEN [err |-> "UnicodeDecodeError", val |-> <<>>, size |-> n]
         ELSE [err |-> "", val |-> chars, size |-> n]
    ELSE LET b == gen[n + 1]
         IN IF lead # 0
            THEN IF IsCont(b)
                 THEN FromGenLoop(gen, n + 1, 0,
                                  Append(chars, (lead - 192) * 64 + (b - 128)))
                 ELSE [err |-> "UnicodeDecodeError", val |-> <<>>, size |-> n + 1]
            ELSE IF b = 0 THEN [err |-> "", val |-> chars, size |-> n + 1]
            ELSE IF b < 128 THEN FromGenLoop(gen, n + 1, 0, Append(chars, b))
            ELSE IF IsLead2(b) THEN FromGenLoop(gen, n + 1, b, chars)
            ELSE [err |-> "UnicodeDecodeError", val |-> <<>>, size |-> n + 1]

zstr_prim_fromgen(gen) == FromGenLoop(gen, 0, 0, <<>>)

v_int_prim_emit(o, x) == IntToBytes(x[1], o.size, o.endian)

v_int_prim_parse(o, byts, offset) ==
    BytesToInt(Slice(byts, offset, offset + o.size), o.size, o.endian, o.signed)

\* _prim_parse of the object's class: [err, val, size]
PrimParse(o, byts, offset) ==
    LET Sized(r) == [err |-> r.err, val |-> r.val, size |-> o.size]
    IN CASE o.kind = "zstr" -> zstr_prim_fromgen(zstr_prim_yield_bytes(byts, offset))
         [] o.kind = "vbytes" ->
              [err |-> "", val |-> vbytes_prim_parse(o, byts, offset), size |-> o.size]
         [] o.kind = "cstr" -> Sized(cstr_prim_parse(o, byts, offset))
         [] OTHER -> Sized(v_int_prim_parse(o, byts, offset))

\* _prim_load: zstr reads the stream byte by byte; the other classes read
\* their size in bytes at the offset and parse those
PrimLoad(o, fd, offset) ==
    IF o.kind = "zstr" THEN zstr_prim_fromgen(zstr_prim_yield_fd(fd, offset))
    ELSE PrimParse(o, Slice(fd, offset, offset + o.size), 0)

\* _prim_emit of the object's class
PrimEmit(o, x) ==
    CASE o.kind = "zstr" -> zstr_prim_emit(x)
      [] o.kind = "vbytes" -> vbytes_prim_emit(o, x)
      [] o.kind = "cstr" -> cstr_prim_emit(o, x)
      [] OTHER -> v_int_prim_emit(o, x)

\* _prim_getval: decode on demand from where the last parse / load pointed
PrimGetVal(o) ==
    LET Store(r) ==
            IF r.err # "" THEN [err |-> r.err, o |-> o]
            ELSE [err |-> "",
                  o |-> [o EXCEPT !.hasval = TRUE, !.value = r.val, !.size = r.size]]
    IN IF o.hasval \/ o.backsrc = "none" THEN [err |-> "", o |-> o]
       ELSE Store(IF o.backsrc = "fd" THEN PrimLoad(o, o.backbuf, o.backoff)
                  ELSE PrimParse(o, o.backbuf, o.backoff))

\* vsSize of a primitive; zstr.vsSize decodes first
PrimSize(o) ==
    LET Sized(g) == [err |-> g.err, o |-> g.o, size |-> g.o.size]
    IN IF o.kind = "zstr" THEN Sized(PrimGetVal(o))
       ELSE [err |-> "", o |-> o, size |-> o.size]

\* vsParse / vsLoad of a primitive: forget the value, remember the source
\* and the offset, return offset + vsSize(); a decode that raises leaves
\* the primitive as it was (per-primitive atomicity)
PrimVsParse(o, src, buf, offset) ==
    LET Ret(s) == IF s.err # "" THEN [err |-> s.err, o |-> o, ret |-> offset]
                  ELSE [err |-> "", o |-> s.o, ret |-> offset + s.size]
    IN Ret(PrimSize([o EXCEPT !.hasval = FALSE, !.value = <<>>, !.backsrc = src,
                              !.backbuf = buf, !.backoff = offset]))

\* vsEmit of a primitive: _prim_emit(_prim_getval())
PrimVsEmit(o) ==
    LET Emitted(g) ==
            IF g.err # "" THEN [err |-> g.err, o |-> g.o, byts |-> <<>>]
            ELSE [err |-> "", o |-> g.o, byts |-> PrimEmit(g.o, g.o.value)]
    IN Emitted(PrimGetVal(o))

\* ------------------------------------------------------------ structures
Ids == 1..MaxObjs

IsPrim(o) == o.kind \in PrimKinds

\* VStruct._vs_prims from position i of the field order: the primitives
\* below structure t, nested structures expanded in place
RECURSIVE vs_prims_from(_, _, _)
vs_prims_from(os, t, i) ==
    IF i > Len(os[t].order) THEN <<>>
    ELSE LET field == os[t].fields[os[t].order[i]]
         IN (IF ~IsPrim(os[field]) THEN vs_prims_from(os, field, 1)
             ELSE <<field>>) \o vs_prims_from(os, t, i + 1)

\* the fields of the structure as they are, nested structures not expanded
vs_prims_flat(os, t) == [i \in 1..Len(os[t].order) |-> os[t].fields[os[t].order[i]]]

vs_prims(os, t) == vs_prims_from(os, t, 1)

\* vsPrims line 130 stepped with a stale size: the size the primitive had
\* when it was yielded instead of its size when the walk resumes
WalkAdvanceStale(offset, yielded, resumed) == offset + yielded.size

\* vsPrims line 130, offset += prim.vsSize(), run when the walk resumes
\* after the caller handled the primitive (yielded: the primitive as it
\* was yielded, resumed: the primitive as the caller left it)
WalkAdvance(offset, yielded, resumed) == offset + resumed.size

\* vsPrims run to its end with nothing done between the yields:
\* [err, walk], walk the sequence of [off, id] yielded; the primitive is
\* yielded before its size is asked for, so a vsSize() that raises ends
\* the walk after that yield
RECURSIVE VsPrimsLoop(_, _, _, _)
VsPrimsLoop(os, prims, i, offset) ==
    LET Yield(r) ==
            [err |-> r.err, walk |-> <<[off |-> offset, id |-> prims[i]]>> \o r.walk]
        Resume(s) ==
            IF s.err # "" THEN [err |-> s.err, walk |-> <<[off |-> offset, id |-> prims[i]]>>]
            ELSE Yield(VsPrimsLoop(os, prims, i + 1, WalkAdvance(offset, s, s)))
    IN IF i > Len(prims) THEN [err |-> "", walk |-> <<>>]
       ELSE Resume(PrimSize(os[prims[i]]))

vsPrims(os, t) == VsPrimsLoop(os, vs_prims(os, t), 1, 0)

\* VStruct.vsSize: [err, size]
vsSize(os, t) ==
    LET End(off, s) == [err |-> s.err, size |-> off + s.size]
        Last(lst) == End(lst.off, PrimSize(os[lst.id]))
        Of(w) == IF w.err # "" THEN [err |-> w.err, size |-> 0]
                 ELSE IF Len(w.walk) = 0 THEN [err |-> "", size |-> 0]
                 ELSE Last(w.walk[Len(w.walk)])
    IN Of(vsPrims(os, t))

\* what a call leaves in the log: a primitive's vsParse / vsLoad was
\* invoked with the walk's offset off (sz: its size afterwards, n: the
\* encoded length of the text a zstr decoded, else -1, nul: it is a
\* zstr and a NUL byte lies at or after the place it was pointed at), a primitive's bytes were
\* written at off (n bytes, sz its vsSize), or a structure's post-parse
\* notification was fired
Event(ev, id, off, n, sz, nul) ==
    [ev |-> ev, id |-> id, off |-> off, n |-> n, sz |-> sz, nul |-> nul]

HasNul(buf, at) == \E i \in (at + 1)..Len(buf) : buf[i] = 0

TextLen(o) == IF o.kind = "zstr" /\ o.hasval THEN Len(Utf8Encode(o.value)) ELSE -1

\* the loop of VStruct.vsParse / vsLoad over vsPrims
RECURSIVE VsParseLoop(_, _, _, _, _, _, _, _, _)
VsParseLoop(os, prims, i, src, buf, base, offset, retoff, events) ==
    LET Handled(p, r, os1, evs) ==
            IF r.err # ""
            THEN [err |-> r.err, os |-> os1, ret |-> retoff, events |-> evs]
            ELSE VsParseLoop(os1, prims, i + 1, src, buf, base,
                             WalkAdvance(offset, os[p], r.o), r.ret, evs)
        Logged(p, r) ==
            Handled(p, r, [os EXCEPT ![p] = r.o],
                    Append(events, Event("decode", p, offset,
                                         IF r.err # "" THEN -1 ELSE TextLen(r.o),
                                         r.o.size,
                                         r.o.kind = "zstr"
                                         /\ HasNul(buf, base + offset))))
    IN IF i > Len(prims)
       THEN [err |-> "", os |-> os, ret |-> retoff, events |-> events]
       ELSE Logged(prims[i], PrimVsParse(os[prims[i]], src, buf, base + offset))

\* the notification fired for every primitive handled, inside the loop
FireOnceMany(t, events) ==
    LET RECURSIVE Each(_)
        Each(i) == IF i > Len(events) THEN <<>>
                   ELSE <<events[i], Event("fire", t, 0, -1, 0, FALSE)>> \o Each(i + 1)
    IN Each(1)

\* self._fire_onset() after the loop of vsParse / vsLoad
FireOnce(t, events) == Append(events, Event("fire", t, 0, -1, 0, FALSE))

\* vsParse with the start offset left out of the primitive offsets
VsParseNoBase(os, t, src, buf, offset) ==
    LET Fired(r) == IF r.err # "" THEN r
                    ELSE [r EXCEPT !.events = FireOnce(t, r.events)]
    IN Fired(VsParseLoop(os, vs_prims(os, t), 1, src, buf, 0, 0, offset, <<>>))

\* VStruct.vsParse (src "bytes") and VStruct.vsLoad (src "fd"):
\* [err, os, ret, events]
VsParse(os, t, src, buf, offset) ==
    LET Fired(r) == IF r.err # "" THEN r
                    ELSE [r EXCEPT !.events = FireOnce(t, r.events)]
    IN Fired(VsParseLoop(os, vs_prims(os, t), 1, src, buf, offset, 0, offset, <<>>))

\* the loop of VStruct.vsEmit: seek to the offset, write the primitive
RECURSIVE VsEmitLoop(_, _, _, _, _, _)
VsEmitLoop(os, prims, i, offset, fd, events) ==
    LET Resume(p, e, os1, s) ==
            IF s.err # ""
            THEN [err |-> s.err, os |-> os1, out |-> <<>>, events |-> events]
            ELSE VsEmitLoop(os1, prims, i + 1, WalkAdvance(offset, os[p], s),
                            FdWrite(fd, offset, e.byts),
                            Append(events,
                                   Event("write", p, offset, Len(e.byts), s.size, FALSE)))
        Written(p, e, os1) ==
            IF e.err # ""
            THEN [err |-> e.err, os |-> os1, out |-> <<>>, events |-> events]
            ELSE Resume(p, e, os1, PrimSize(e.o))
        Emitted(p, e) == Written(p, e, [os EXCEPT ![p] = e.o])
    IN IF i > Len(prims)
       THEN [err |-> "", os |-> os, out |-> fd, events |-> events]
       ELSE Emitted(prims[i], PrimVsEmit(os[prims[i]]))

\* VStruct.vsEmit: [err, os, out, events]
VsEmit(os, t) == VsEmitLoop(os, vs_prims(os, t), 1, 0, <<>>, <<>>)

\* ------------------------------------------------- attaching and setting
\* the objects the root structure (object 1) still refers to
RECURSIVE ReachFrom(_, _)
ReachFrom(os, t) ==
    {t} \cup UNION {ReachFrom(os, os[t].fields[n]) : n \in DOMAIN os[t].fields}

\* objects the structure no longer refers to are gone
Collect(os) ==
    LET live == ReachFrom(os, 1)
    IN [i \in Ids |-> IF i \in live THEN os[i] ELSE FreeObj]

HasFree(os) == \E i \in Ids : os[i].kind = "free"

NewId(os) == CHOOSE i \in Ids :
                 os[i].kind = "free" /\ \A j \in 1..(i - 1) : os[j].kind # "free"

\* self._vs_fields.get(name): the field's object, 0 for None
FieldGet(o, name) == IF name \in DOMAIN o.fields THEN o.fields[name] ELSE 0

\* VStruct.__iter__: the (name, field) pairs in field order
Iter(o) == [i \in 1..Len(o.order) |-> <<o.order[i], FieldGet(o, o.order[i])>>]

\* the attach with the name appended whether or not it is already a field
AttachFieldDup(o, name, id) ==
    [o EXCEPT !.order = Append(o.order, name),
              !.fields = [n \in DOMAIN o.fields \cup {name} |->
                             IF n = name THEN id ELSE o.fields[n]]]

\* lines 176-179 and 196-198: map the name to the field, append the name
\* to the field order when it was not a field before
AttachField(o, name, id) ==
    [o EXCEPT !.order = IF FieldGet(o, name) = 0 THEN Append(o.order, name)
                        ELSE o.order,
              !.fields = [n \in DOMAIN o.fields \cup {name} |->
                             IF n = name THEN id ELSE o.fields[n]]]

\* the structure t with the object a Field value stands for attached; the
\* object takes the slot of the field it replaces, or else a free one
Attach(os, t, name, fobj) ==
    LET At(id) == Collect([os EXCEPT ![id] = fobj, ![t] = AttachField(os[t], name, id)])
    IN At(IF FieldGet(os[t], name) # 0 THEN FieldGet(os[t], name) ELSE NewId(os))

\* field._prim_setval(valu) on the field a name maps to
FieldSetVal(os, id, v) ==
    LET Stored(r) == [err |-> r.err, os |-> [os EXCEPT ![id] = r.o]]
    IN Stored(PrimSetVal(os[id], v))

\* VStruct.__setattr__ for a name outside the _vs_ namespace: [err, os]
SetAttrOp(os, t, name, v) ==
    LET Endian(f) == IF os[t].endian # "none" /\ IsInt(v.cls)
                     THEN [f EXCEPT !.endian = os[t].endian] ELSE f
    IN IF v.isfield
       THEN [err |-> "", os |-> Attach(os, t, name, Endian(Construct(v)))]
       ELSE IF FieldGet(os[t], name) # 0
       THEN FieldSetVal(os, FieldGet(os[t], name), v)
       ELSE [err |-> "",
             os |-> [os EXCEPT ![t].attrs = os[t].attrs \cup {name}]]

\* __setitem__ that stores nothing and raises nothing for an unknown name
SetItemSilent(os, t, name, v) ==
    IF v.isfield THEN [err |-> "", os |-> Attach(os, t, name, Construct(v))]
    ELSE IF FieldGet(os[t], name) = 0 THEN [err |-> "", os |-> os]
    ELSE FieldSetVal(os, FieldGet(os[t], name), v)

\* VStruct.__setitem__: [err, os]
SetItemOp(os, t, name, v) ==
    IF v.isfield THEN [err |-> "", os |-> Attach(os, t, name, Construct(v))]
    ELSE IF FieldGet(os[t], name) = 0 THEN [err |-> "Exception", os |-> os]
    ELSE FieldSetVal(os, FieldGet(os[t], name), v)

\* VArray.vsAddElement: the next index is the number of fields
VsAddElementOp(os, t, v) ==
    SetItemOp(os, t, IntName(Cardinality(DOMAIN os[t].fields)), v)

\* a constructor that raised: no object is constructed
NoObjs == [i \in Ids |-> FreeObj]

\* VArray.__init__(fields): self[i] = f for each; [err, os], an exception
\* of __setitem__ leaves the constructor
RECURSIVE VArrayInit(_, _, _)
VArrayInit(os, fields, i) ==
    LET Rest(r) == IF r.err # "" THEN [err |-> r.err, os |-> NoObjs]
                   ELSE VArrayInit(r.os, fields, i + 1)
    IN IF i > Len(fields) THEN [err |-> "", os |-> os]
       ELSE Rest(SetItemOp(os, 1, IntName(i - 1), fields[i]))

\* a constructor body of a VStruct subclass: attribute assignments, each
\* <<path, name, Field>>, path the attribute names leading to the structure
RECURSIVE Follow(_, _, _)
Follow(os, t, path) ==
    IF Len(path) = 0 THEN t
    ELSE Follow(os, os[t].fields[StrName(Head(path))], Tail(path))

\* [err, os]; an exception of an assignment leaves the constructor
RECURSIVE Build(_, _)
Build(os, steps) ==
    LET Rest(r) == IF r.err # "" THEN [err |-> r.err, os |-> NoObjs]
                   ELSE Build(r.os, Tail(steps))
        Step(st) == Rest(SetAttrOp(os, Follow(os, 1, st[1]), StrName(st[2]), st[3]))
    IN IF Len(steps) = 0 THEN [err |-> "", os |-> os] ELSE Step(Head(steps))

EmptyPool(kind) == [i \in Ids |-> IF i = 1 THEN NewStruct(kind) ELSE FreeObj]

\* ------------------------------------------------------------ the inputs
RECURSIVE SeqsUpTo(_, _)
SeqsUpTo(S, n) ==
    IF n = 0 THEN {<<>>}
    ELSE LET shorter == SeqsUpTo(S, n - 1)
         IN shorter \cup {Append(q, x) : q \in {r \in shorter : Len(r) = n - 1}, x \in S}

\* b"this is some text\x00\x03\x00", the buffer of the zstr docstring
ExampleBuf ==
    <<116, 104, 105, 115, 32, 105, 115, 32, 115, 111, 109, 101, 32,
      116, 101, 120, 116, 0, 3, 0>>

ExampleText ==
    <<116, 104, 105, 115, 32, 105, 115, 32, 115, 111, 109, 101, 32,
      116, 101, 120, 116>>

\* the buffers and streams parsed: every non-empty byte string up to MaxLen
\* over ByteVals, the docstring's, one with a two byte character before
\* the NUL, one filling the fixed width structure, and two that are not
\* UTF-8 (0xC3 opens a two byte form: at the end, before an ASCII byte)
Buffers ==
    (SeqsUpTo(ByteVals, MaxLen) \ {<<>>})
    \cup {ExampleBuf, <<195, 169, 0, 3, 0>>, <<195, 2, 1, 65>>, <<195>>, <<195, 65>>}

\* a few buffers for parses between attachments
FewBuffers == {<<65, 0, 65>>, <<195, 169, 0, 0>>}

\* plain python values assigned to fields: 3, -1 and 'AA'
FewPlainVals ==
    {PlainVal("int", <<3>>), PlainVal("int", <<-1>>), PlainVal("str", <<65, 65>>)}

\* freshly constructed fields attached to structures
FieldVals ==
    {FieldVal("VStruct", 0, <<>>),
     FieldVal("uint16", 0, <<>>), FieldVal("zstr", 0, <<>>)}

AttrNames == {StrName("x"), StrName("y")}
ItemNames == {StrName("x"), IntName(0), IntName(1)}

\* the structures parsed: constructor bodies in the style of the
\* docstrings (class woot), widths cut down to the buffers' lengths; the
\* last but one holds a vbytes(1) constructed with a two byte value
Shapes ==
    {Build(EmptyPool("VStruct"), steps) : steps \in
        {<< >>,
         << <<<<>>, "e", FieldVal("VStruct", 0, <<>>)>> >>,
         << <<<<>>, "x", FieldVal("int8", 0, <<>>)>>,
            <<<<>>, "y", FieldVal("uint16", 0, <<>>)>>,
            <<<<>>, "z", FieldVal("vbytes", 1, <<>>)>> >>,
         << <<<<>>, "y", FieldVal("uint16", 0, <<>>)>> >>,
         << <<<<>>, "z", FieldVal("vbytes", 2, <<>>)>> >>,
         << <<<<>>, "x", FieldVal("zstr", 0, <<>>)>>,
            <<<<>>, "y", FieldVal("uint16", 0, <<>>)>> >>,
         << <<<<>>, "x", FieldVal("cstr", 2, <<>>)>> >>,
         << <<<<>>, "s", FieldVal("zstr", 0, <<>>)>> >>,
         << <<<<>>, "z", FieldVal("vbytes", 1, <<65, 65>>)>> >>,
         << <<<<>>, "h", FieldVal("VStruct", 0, <<>>)>>,
            <<<<"h">>, "a", FieldVal("uint8", 0, <<>>)>>,
            <<<<"h">>, "s", FieldVal("zstr", 0, <<>>)>>,
            <<<<>>, "t", FieldVal("vbytes", 1, <<>>)>> >>}}

\* the objects the attach specification starts from: VStruct(), VArray(),
\* VArray([uint16()]), VArray([3, uint16()]) and
\* VArray([uint16(), 'AA', zstr()]) whose constructors raise, the
\* docstring's class woot (x: zstr, y: uint16), a structure whose
\* constructor nests a structure h holding a zstr s, and one holding a
\* vbytes(1) x; each with the exception its constructor raised
Roots ==
    {[err |-> "", os |-> EmptyPool("VStruct")],
     VArrayInit(EmptyPool("VArray"), <<>>, 1),
     VArrayInit(EmptyPool("VArray"), <<FieldVal("uint16", 0, <<>>)>>, 1),
     VArrayInit(EmptyPool("VArray"),
                <<PlainVal("int", <<3>>), FieldVal("uint16", 0, <<>>)>>, 1),
     VArrayInit(EmptyPool("VArray"),
                <<FieldVal("uint16", 0, <<>>), PlainVal("str", <<65, 65>>),
                  FieldVal("zstr", 0, <<>>)>>, 1),
     Build(EmptyPool("VStruct"),
           << <<<<>>, "x", FieldVal("zstr", 0, <<>>)>>,
              <<<<>>, "y", FieldVal("uint16", 0, <<>>)>> >>),
     Build(EmptyPool("VStruct"),
           << <<<<>>, "h", FieldVal("VStruct", 0, <<>>)>>,
              <<<<"h">>, "s", FieldVal("zstr", 0, <<>>)>> >>),
     Build(EmptyPool("VStruct"),
           << <<<<>>, "x", FieldVal("vbytes", 1, <<>>)>> >>)}

\* ------------------------------------------------------------- the calls
\* the last call made: what was called on which structure with what (val:
\* the value assigned), and
\* what it raised (err), returned (ret, out) and did (events); for a
\* vsEmit, pok says the call before it was a vsParse of the same structure
\* at offset 0 that returned, and pbuf is the buffer that one parsed
NoCall ==
    [op |-> "init", target |-> 0, name |-> StrName(""), isfield |-> FALSE,
     val |-> PlainVal("none", <<>>), buf |-> <<>>, off |-> 0, err |-> "", ret |-> 0, out |-> <<>>,
     events |-> <<>>, pok |-> FALSE, pbuf |-> <<>>]

IsOkParse(c) == c.op \in {"vsParse", "vsLoad"} /\ c.err = ""

StructIds(os) == {i \in Ids : os[i].kind \in StructKinds}
ArrayIds(os) == {i \in Ids : os[i].kind = "VArray"}

DoParse(t, op, src, buf, off) ==
    LET Done(r) ==
            /\ objs' = r.os
            /\ last' = [NoCall EXCEPT !.op = op, !.target = t, !.buf = buf,
                                      !.off = off, !.err = r.err, !.ret = r.ret,
                                      !.events = r.events]
    IN Done(VsParse(objs, t, src, buf, off))

DoEmit(t) ==
    LET Done(r, after) ==
            /\ objs' = r.os
            /\ last' = [NoCall EXCEPT !.op = "vsEmit", !.target = t, !.err = r.err,
                                      !.out = r.out, !.events = r.events,
                                      !.pok = after,
                                      !.pbuf = IF after THEN last.buf ELSE <<>>]
    IN Done(VsEmit(objs, t),
            last.op = "vsParse" /\ last.err = "" /\ last.target = t /\ last.off = 0)

\* an assignment: op names the path, r is what the operation returned
DoAssign(op, t, name, v, r) ==
    /\ objs' = r.os
    /\ last' = [NoCall EXCEPT !.op = op, !.target = t, !.name = name,
                              !.isfield = v.isfield, !.val = v, !.err = r.err]

\* s.vsParse(buf, offset) on the structure
Parse == /\ objs[1].kind \in StructKinds
         /\ \E buf \in Buffers, off \in Offsets :
               DoParse(1, "vsParse", "bytes", buf, off)
         /\ UNCHANGED calls

\* s.vsLoad(io.BytesIO(buf), offset) on the structure
Load == /\ objs[1].kind \in StructKinds
        /\ \E buf \in Buffers, off \in Offsets :
              DoParse(1, "vsLoad", "fd", buf, off)
        /\ UNCHANGED calls

\* s.vsEmit() on the structure
Emit == objs[1].kind \in StructKinds /\ DoEmit(1) /\ UNCHANGED calls

\* one more call on a structure that is being built
Count == calls < MaxCalls /\ calls' = calls + 1

\* s.name = value
SetAttr == /\ Count
           /\ \E t \in StructIds(objs), name \in AttrNames,
                 v \in FieldVals \cup FewPlainVals :
                 /\ v.isfield => HasFree(objs)
                 /\ DoAssign("setattr", t, name, v, SetAttrOp(objs, t, name, v))

\* s[name] = value
SetItem == /\ Count
           /\ \E t \in StructIds(objs), name \in ItemNames,
                 v \in FieldVals \cup FewPlainVals :
                 /\ v.isfield => HasFree(objs)
                 /\ DoAssign("setitem", t, name, v, SetItemOp(objs, t, name, v))

\* a.vsAddElement(value)
AddElement == /\ Count
              /\ \E t \in ArrayIds(objs), v \in FieldVals \cup FewPlainVals :
                    /\ v.isfield => HasFree(objs)
                    /\ DoAssign("vsAddElement", t,
                                IntName(Cardinality(DOMAIN objs[t].fields)), v,
                                VsAddElementOp(objs, t, v))

\* s._vs_endian = 'big' on the structure: line 168, a name of the _vs_
\* namespace is an ordinary attribute of the object
SetEndian == /\ Count
             /\ objs[1].kind \in StructKinds
             /\ objs' = [objs EXCEPT ![1].endian = "big"]
             /\ last' = [NoCall EXCEPT !.op = "setattr", !.target = 1,
                                       !.name = StrName("_vs_endian")]

\* s.vsParse(buf) while the structure is being built, on any structure of
\* the tree
ParseFew == /\ Count
            /\ \E t \in StructIds(objs), buf \in FewBuffers :
                  DoParse(t, "vsParse", "bytes", buf, 0)

TypeOK == /\ \A i \in Ids : objs[i].kind \in PrimKinds \cup StructKinds \cup {"free"}
          /\ objs[1].kind \in StructKinds \/ (objs = NoObjs /\ last.err # "")

\* parsing, loading and emitting on the docstring structures
InitParse == /\ \E r \in Shapes : objs = r.os /\ last = [NoCall EXCEPT !.err = r.err]
             /\ calls = 0
NextParse == Parse \/ Load \/ Emit
SpecParse == InitParse /\ [][NextParse]_vars

\* building structures and arrays, assigning, parsing
Init == /\ \E r \in Roots : objs = r.os /\ last = [NoCall EXCEPT !.err = r.err]
        /\ calls = 0
Next == SetAttr \/ SetItem \/ AddElement \/ SetEndian \/ ParseFew
Spec == Init /\ [][Next]_vars

\* ------------------------------------------------------------ the claims
PrimIds(os) == {i \in Ids : IsPrim(os[i])}

\* the primitives transitively contained in structure t
Contained(os, t) == ReachFrom(os, t) \cap PrimIds(os)

\* the primitive decodes a vsParse / vsLoad invoked, in order
Decodes(c) == SelectSeq(c.events, LAMBDA e : e.ev = "decode")

\* the positions of a call's log at which a notification was fired
Fires(c) == {i \in 1..Len(c.events) : c.events[i].ev = "fire"}

NoDup(s) == \A i, j \in 1..Len(s) : i # j => s[i] # s[j]
Names(s) == {s[i] : i \in 1..Len(s)}

\* ---- C1
\* every primitive below the structure is an integer, a vbytes or a cstr
FixedWidth(os, t) ==
    \A p \in Contained(os, t) : os[p].kind \in {"v_int", "vbytes", "cstr"}

\* the last call was s.vsEmit() straight after s.vsParse(b) returned, on a
\* structure of fixed-width primitives, with len(b) >= s.vsSize()
C1Case ==
    /\ last.op = "vsEmit" /\ last.pok
    /\ FixedWidth(objs, last.target)
    /\ Len(last.pbuf) >= vsSize(objs, last.target).size

C1Law ==
    /\ last.err = ""
    /\ last.out = Slice(last.pbuf, 0, vsSize(objs, last.target).size)

\* a byte region that is UTF-8 text with nothing but NUL bytes after its
\* first NUL byte
CleanText(r) ==
    /\ Utf8Decode(r).err = ""
    /\ \A i, j \in 1..Len(r) : (i < j /\ r[i] = 0) => r[j] = 0

\* the region of the parsed buffer under every cstr of the walk is CleanText
CleanRegions(os, t, b, w) ==
    \A k \in 1..Len(w.walk) :
        os[w.walk[k].id].kind = "cstr" =>
            CleanText(Slice(b, w.walk[k].off, w.walk[k].off + os[w.walk[k].id].size))

\* C1 as stated: for a structure whose primitives are all fixed-width and a
\* buffer b at least vsSize() long, vsParse(b) followed by vsEmit() returns
\* exactly b[0:vsSize()].
C1_RoundTrip == C1Case => C1Law

\* C1, amended: the round trip returns b[0:vsSize()] when, in addition, the
\* bytes under every cstr(n) are valid text with no byte other than NUL
\* after the first NUL (cstr keeps only the text before the first NUL, and
\* raises on bytes that do not decode).
C1_RoundTripCleanText ==
    (C1Case /\ CleanRegions(objs, last.target, last.pbuf, vsPrims(objs, last.target)))
        => C1Law

\* a round trip of int8, uint16, vbytes(1) over a four byte buffer
C1_Witness ==
    /\ C1Case
    /\ Len(vs_prims(objs, last.target)) = 3
    /\ last.pbuf = <<195, 2, 1, 65>>
    /\ last.out = <<195, 2, 1, 65>>

\* ---- C2
RECURSIVE SumSizes(_, _, _)
SumSizes(os, walk, k) ==
    IF k = 0 THEN 0
    ELSE SumSizes(os, walk, k - 1) + PrimSize(os[walk[k].id]).size

\* where the walk yields primitive p
Pos(walk, p) == CHOOSE k \in 1..Len(walk) : walk[k].id = p

\* the walk w of structure t: the contained primitives, each once, those
\* below an earlier field before those below a later field of the same
\* structure, each at the sum of the current sizes of those before it
C2Walk(os, t, w) ==
    /\ {w.walk[k].id : k \in 1..Len(w.walk)} = Contained(os, t)
    /\ \A j, k \in 1..Len(w.walk) : j # k => w.walk[j].id # w.walk[k].id
    /\ \A s \in ReachFrom(os, t) \ PrimIds(os) :
          \A i, j \in 1..Len(os[s].order) :
              i < j =>
                 \A p \in Contained(os, os[s].fields[os[s].order[i]]),
                    q \in Contained(os, os[s].fields[os[s].order[j]]) :
                       Pos(w.walk, p) < Pos(w.walk, q)
    /\ \A k \in 1..Len(w.walk) : w.walk[k].off = SumSizes(os, w.walk, k - 1)
    /\ \A j, k \in 1..Len(w.walk) :
          j < k => w.walk[j].off + PrimSize(os[w.walk[j].id]).size <= w.walk[k].off

\* C2: after any attachments, assignments and parses, vsPrims() of every
\* structure yields exactly its transitively contained primitives, depth
\* first in insertion order, never a structure, each at the sum of the
\* current sizes of the primitives before it; so a primitive ends at or
\* before the offset of every later one.
C2_WalkOrderAndOffsets ==
    \A t \in StructIds(objs) : C2Walk(objs, t, vsPrims(objs, t))

\* a walk through a nested structure: a zstr below h grown by a parse, then
\* a primitive of the root at the offset the zstr's new size gives
C2_Witness ==
    /\ last.op = "vsParse" /\ last.target = 1 /\ last.err = ""
    /\ Len(vsPrims(objs, 1).walk) = 2
    /\ vsPrims(objs, 1).walk[1].id \notin {objs[1].fields[n] : n \in DOMAIN objs[1].fields}
    /\ objs[vsPrims(objs, 1).walk[1].id].kind = "zstr"
    /\ objs[vsPrims(objs, 1).walk[1].id].size = 2
    /\ vsPrims(objs, 1).walk[2].off = 2

\* ---- C3
\* within one parse: the primitive after position k is handed the offset
\* of k plus the size k has after its decode, and a zstr that decoded a
\* text up to a NUL has the size of its text plus one
C3Within(c, os) ==
    c.op \in {"vsParse", "vsLoad"} =>
        \A k \in 1..Len(Decodes(c)) :
            /\ Decodes(c)[k].sz = os[Decodes(c)[k].id].size
            /\ (Decodes(c)[k].nul /\ Decodes(c)[k].n >= 0) =>
                  Decodes(c)[k].sz = Decodes(c)[k].n + 1
            /\ k < Len(Decodes(c)) =>
                  Decodes(c)[k + 1].off = Decodes(c)[k].off + Decodes(c)[k].sz

\* two parses of one structure: where a NUL-terminated zstr sits at the
\* same offset in both, the following primitive moves by the difference of
\* the encoded text lengths
C3Delta(c, d) ==
    (IsOkParse(c) /\ IsOkParse(d) /\ c.target = d.target
     /\ Len(Decodes(c)) = Len(Decodes(d))) =>
        \A k \in 1..(Len(Decodes(c)) - 1) :
            (Decodes(c)[k].nul /\ Decodes(d)[k].nul
             /\ Decodes(c)[k].off = Decodes(d)[k].off) =>
                Decodes(d)[k + 1].off - Decodes(c)[k + 1].off
                    = Decodes(d)[k].n - Decodes(c)[k].n

\* structure t is (x: zstr, y: uint16)
IsWoot(os, t) ==
    /\ Len(vs_prims(os, t)) = 2
    /\ os[vs_prims(os, t)[1]].kind = "zstr"
    /\ os[vs_prims(os, t)[2]].kind = "v_int"
    /\ os[vs_prims(os, t)[2]].size = 2
    /\ ~os[vs_prims(os, t)[2]].signed

\* the docstring: w.vsParse(b"this is some text\x00\x03\x00")
C3Example(c, os) ==
    (c.op = "vsParse" /\ c.buf = ExampleBuf /\ c.off = 0 /\ IsWoot(os, c.target)) =>
        /\ c.err = ""
        /\ os[vs_prims(os, c.target)[1]].value = ExampleText
        /\ PrimGetVal(os[vs_prims(os, c.target)[2]]).err = ""
        /\ PrimGetVal(os[vs_prims(os, c.target)[2]]).o.value = <<3>>

\* C3: within one vsParse / vsLoad the offset handed to the primitive after
\* a zstr is computed from the size the zstr has after its decode; two
\* parses whose NUL-terminated texts differ in encoded length by d put the
\* following field d apart; and the docstring buffer parsed into
\* (x: zstr, y: uint16) gives x = "this is some text" and y = 3.
C3_ResizeSeenByNextOffset ==
    [][/\ C3Within(last', objs')
       /\ C3Delta(last, last')
       /\ C3Example(last', objs')]_vars

\* the docstring parse: the zstr grows from 1 to 18 bytes and the integer
\* is handed offset 18
C3_Witness ==
    /\ last.op = "vsParse" /\ last.err = "" /\ last.off = 0
    /\ last.buf = ExampleBuf /\ IsWoot(objs, last.target)
    /\ Decodes(last)[1].n = 17 /\ Decodes(last)[1].sz = 18
    /\ Decodes(last)[2].off = 18

\* ---- C4
\* C4: vsEmit() returns vsSize() bytes, and every primitive writes exactly
\* as many bytes as its reported size.
C4_EmitFitsSizes ==
    (last.op = "vsEmit" /\ last.err = "") =>
        /\ Len(last.out) = vsSize(objs, last.target).size
        /\ \A i \in 1..Len(last.events) : last.events[i].n = last.events[i].sz

\* (s: zstr) parsed from b"A" and emitted: two bytes from a structure whose
\* vsSize() is 1
C4_Witness ==
    /\ last.op = "vsEmit" /\ last.err = "" /\ last.pok /\ last.pbuf = <<65>>
    /\ Len(vs_prims(objs, last.target)) = 1
    /\ objs[vs_prims(objs, last.target)[1]].kind = "zstr"
    /\ vsSize(objs, last.target).size = 1
    /\ last.out = <<65, 0>>

\* ---- C5
\* C5: vsParse(buf, offset) and vsLoad(fd, offset) return offset + vsSize()
\* with vsSize() taken after the call; a structure with no descendant
\* primitive returns offset, and its vsSize() is 0.
C5_ParseReturnsOffsetPlusSize ==
    IsOkParse(last) =>
        /\ vsSize(objs, last.target).err = ""
        /\ last.ret = last.off + vsSize(objs, last.target).size
        /\ Contained(objs, last.target) = {} =>
              (last.ret = last.off /\ vsSize(objs, last.target).size = 0)

\* a load at offset 1 that resizes a zstr: 16 bytes of text, a NUL and a
\* uint16 end at 20
C5_Witness ==
    /\ last.op = "vsLoad" /\ last.err = "" /\ last.off = 1
    /\ last.buf = ExampleBuf /\ IsWoot(objs, last.target)
    /\ last.ret = 20

\* ---- C6
\* the field order has no duplicate, names exactly the keys of the field
\* mapping, and iteration yields each name with its field in that order
C6Inv(os) ==
    \A t \in StructIds(os) :
        /\ NoDup(os[t].order)
        /\ Names(os[t].order) = DOMAIN os[t].fields
        /\ Len(Iter(os[t])) = Len(os[t].order)
        /\ \A i \in 1..Len(os[t].order) :
              /\ Iter(os[t])[i][1] = os[t].order[i]
              /\ Iter(os[t])[i][2] = os[t].fields[os[t].order[i]]
              /\ os[Iter(os[t])[i][2]].kind # "free"

\* a Field attached under name n of structure t, from os to os2: a new
\* name goes to the end, an existing name keeps its place; the name maps
\* to the field attached and every other name to what it mapped to
C6Attach(c, os, os2) ==
    (c.op \in {"setattr", "setitem", "vsAddElement"} /\ c.isfield) =>
        /\ c.err = ""
        /\ os2[c.target].order =
              IF c.name \in DOMAIN os[c.target].fields THEN os[c.target].order
              ELSE Append(os[c.target].order, c.name)
        /\ c.name \in DOMAIN os2[c.target].fields
        /\ os2[os2[c.target].fields[c.name]].kind = Construct(c.val).kind
        /\ os2[os2[c.target].fields[c.name]].order = <<>>
        /\ \A m \in DOMAIN os[c.target].fields \ {c.name} :
              /\ m \in DOMAIN os2[c.target].fields
              /\ os2[c.target].fields[m] = os[c.target].fields[m]

\* C6: whatever is attached through attribute or item assignment, the
\* field order holds no duplicate and exactly the keys of the field
\* mapping; a Field under a new name is appended at the end, a Field under
\* an existing name replaces the mapped field and moves no name; iteration
\* yields the (name, field) pairs in that order.
C6_OrderMatchesFields ==
    C6Inv(objs) /\ [][C6Inv(objs') /\ C6Attach(last', objs, objs')]_vars

\* a Field attached under the first of two names: the name is still first
C6_Witness ==
    /\ last.op \in {"setattr", "setitem"} /\ last.isfield
    /\ Len(objs[last.target].order) = 2
    /\ objs[last.target].order[1] = last.name
    /\ objs[objs[last.target].fields[last.name]].kind = "v_int"

\* ---- C7
\* the last call assigned a value that is not a Field under a name outside
\* the _vs_ namespace of the object's own attributes
C7Plain(c) ==
    c.op \in {"setattr", "setitem"} /\ ~c.isfield /\ c.name # StrName("_vs_endian")

C7Kept(c, os, os2) ==
    /\ os2[c.target].fields = os[c.target].fields
    /\ os2[c.target].order = os[c.target].order

\* the name maps to a field: _prim_setval(value) on that field
C7Set(c, os, os2) ==
    FieldGet(os[c.target], c.name) # 0 =>
        /\ c.err = PrimSetVal(os[FieldGet(os[c.target], c.name)], c.val).err
        /\ os2[FieldGet(os[c.target], c.name)]
              = PrimSetVal(os[FieldGet(os[c.target], c.name)], c.val).o

\* C7 as stated: a value that is not a Field, under a name that maps to no
\* field, fails on both paths and leaves mapping and order unchanged;
\* under a name that maps to a field the value is set on that field.
C7_NonFieldFailsOnBothPaths ==
    [][C7Plain(last') =>
          /\ C7Kept(last', objs, objs')
          /\ C7Set(last', objs, objs')
          /\ FieldGet(objs[last'.target], last'.name) = 0 => last'.err # ""]_vars

\* C7, amended: item assignment of such a value under an unknown name
\* raises; attribute assignment raises nothing and stores the value as a
\* plain attribute of the object; either way mapping and order are
\* unchanged, and under a name that maps to a field the value is set on
\* that field.
C7_NonFieldFailsOnItemPath ==
    [][C7Plain(last') =>
          /\ C7Kept(last', objs, objs')
          /\ C7Set(last', objs, objs')
          /\ FieldGet(objs[last'.target], last'.name) = 0 =>
                IF last'.op = "setitem" THEN last'.err = "Exception"
                ELSE /\ last'.err = ""
                     /\ objs'[last'.target].attrs
                           = objs[last'.target].attrs \cup {last'.name}]_vars

\* s.x = 3 stored a plain attribute, then s['x'] = 3 raised
C7_Witness ==
    /\ last.op = "setitem" /\ ~last.isfield /\ last.err = "Exception"
    /\ last.name = StrName("x")
    /\ StrName("x") \in objs[last.target].attrs
    /\ objs[last.target].order = <<>>

\* ---- C8
\* C8: vsAddElement(elem) attaches elem as a new last element under the
\* next integer index: one more element, none replaced.
C8_AddElementAppends ==
    [][(last'.op = "vsAddElement" /\ last'.isfield) =>
          /\ objs'[last'.target].order
                = Append(objs[last'.target].order,
                         IntName(Len(objs[last'.target].order)))
          /\ Cardinality(DOMAIN objs'[last'.target].fields)
                = Cardinality(DOMAIN objs[last'.target].fields) + 1]_vars

\* a = VArray(); a[1] = f; a.vsAddElement(g): one element, named 1
C8_Witness ==
    /\ last.op = "vsAddElement" /\ last.isfield /\ last.err = ""
    /\ objs[last.target].kind = "VArray"
    /\ objs[last.target].order = <<IntName(1)>>

\* ---- C9
\* C9: a zstr's size is the encoded length of its value plus 1 after any
\* decode or assignment.
C9_ZstrSizeIsTextPlusOne ==
    \A i \in Ids :
        (objs[i].kind = "zstr" /\ objs[i].hasval) =>
            objs[i].size = Len(Utf8Encode(objs[i].value)) + 1

\* a zstr decoded from b"A", which holds no NUL: value "A", size 1
C9_Witness ==
    /\ last.op = "vsParse" /\ last.err = "" /\ last.buf = <<65>> /\ last.off = 0
    /\ \E i \in Ids : /\ objs[i].kind = "zstr" /\ objs[i].hasval
                      /\ objs[i].value = <<65>> /\ objs[i].size = 1

\* ---- C10
\* C10: a vsParse / vsLoad that returns has invoked the decode of every
\* primitive of the walk, in order, and then fired the notification of the
\* structure it was called on, once, and no other; one that raises has
\* fired none.
C10_FiresOnceAfterDecodes ==
    last.op \in {"vsParse", "vsLoad"} =>
        IF last.err = ""
        THEN /\ Fires(last) = {Len(last.events)}
             /\ last.events[Len(last.events)].id = last.target
             /\ Len(last.events) = Len(vs_prims(objs, last.target)) + 1
             /\ \A i \in 1..Len(vs_prims(objs, last.target)) :
                   /\ last.events[i].ev = "decode"
                   /\ last.events[i].id = vs_prims(objs, last.target)[i]
        ELSE Fires(last) = {}

\* a parse of the structure that nests h: three decodes, then one
\* notification
C10_Witness ==
    /\ IsOkParse(last)
    /\ \E i \in Ids : i # last.target /\ objs[i].kind = "VStruct"
    /\ Len(Decodes(last)) = 3
    /\ Len(last.events) = 4

====
